---------------------------- MODULE Spec2Model ----------------------------
(***************************************************************************)
(* A model of the Universal Machine interpreter of pkg/um/um.go and of    *)
(* its embedder cmd/um/main.go.                                            *)
(*                                                                         *)
(* A platter is a Go uint32.  TLC's integers are 32-bit signed, so a      *)
(* platter is kept as a pair <<hi, lo>> of 16-bit limbs, its value being  *)
(* hi * 2^16 + lo; every operation below is exact modulo 2^32.            *)
(***************************************************************************)
EXTENDS Integers, Sequences, FiniteSets, TLC

(***************************************************************************)
(* Platters: type platter uint32                                          *)
(***************************************************************************)
\* 2^16: one limb of a platter
Limb == 65536

P(hi, lo) == <<hi, lo>>

\* the platter of a small natural number n < 2^16
Plat(n) == <<0, n>>

Zero == <<0, 0>>

\* 0xffffffff
AllOnes == <<65535, 65535>>

IsPlatter(p) == /\ p \in Seq(Int)
                /\ Len(p) = 2
                /\ p[1] \in 0..(Limb - 1)
                /\ p[2] \in 0..(Limb - 1)

\* a + b on uint32 (wraps modulo 2^32)
Add(a, b) == <<(a[1] + b[1] + ((a[2] + b[2]) \div Limb)) % Limb, (a[2] + b[2]) % Limb>>

\* a - b on uint32 (wraps modulo 2^32)
Sub(a, b) ==
    IF a[2] >= b[2]
    THEN <<(a[1] - b[1] + Limb) % Limb, a[2] - b[2]>>
    ELSE <<(a[1] - b[1] - 1 + 2 * Limb) % Limb, a[2] - b[2] + Limb>>

\* a < b, unsigned
Less(a, b) == a[1] < b[1] \/ (a[1] = b[1] /\ a[2] < b[2])

\* the exact product of two limbs, as a platter (x * y < 2^32); the factor x
\* is split in bytes so that no intermediate value leaves TLC's integers
Mul16(x, y) ==
    LET t == (x \div 256) * y
        u == (x % 256) * y
        lo == (t % 256) * 256 + (u % Limb)
        hi == (t \div 256) + (u \div Limb) + (lo \div Limb)
    IN  <<hi, lo % Limb>>

\* a product that keeps only the product of the low limbs
MulLow(a, b) == Mul16(a[2], b[2])

\* a * b on uint32 (wraps modulo 2^32)
Mul(a, b) ==
    LET ll == Mul16(a[2], b[2])
        hl == Mul16(a[1], b[2])
        lh == Mul16(a[2], b[1])
    IN  <<(ll[1] + hl[2] + lh[2]) % Limb, ll[2]>>

\* bitwise AND of two limbs
RECURSIVE And16(_, _, _)
And16(x, y, n) ==
    IF n = 0 THEN 0
    ELSE (x % 2) * (y % 2) + 2 * And16(x \div 2, y \div 2, n - 1)

\* ^(a & b) on uint32
Nand(a, b) == <<(Limb - 1) - And16(a[1], b[1], 16), (Limb - 1) - And16(a[2], b[2], 16)>>

\* q * b <= a for a multiplier q <= 2^16: the product is formed in three limbs
LeProd(q, b, a) ==
    LET lo == Mul16(q, b[2])
        hi == Mul16(q, b[1])
        w1 == lo[1] + hi[2]
    IN  /\ hi[1] + (w1 \div Limb) = 0
        /\ ~Less(a, <<w1 % Limb, lo[2]>>)

\* a / b on uint32 for a divisor b < 2^16: short division of a's digits
\* (a limb, then the two bytes of the low limb) by b[2]
DivShort(a, d) ==
    LET r1 == a[1] % d
        n2 == r1 * 256 + (a[2] \div 256)
        n3 == (n2 % d) * 256 + (a[2] % 256)
    IN  <<a[1] \div d, (n2 \div d) * 256 + (n3 \div d)>>

\* a / b on uint32 for a divisor b >= 2^16: the quotient is < 2^16 and is
\* found a byte at a time as the largest q with q * b <= a
DivLong(a, b) ==
    LET qh == CHOOSE x \in 0..255 : LeProd(x * 256, b, a) /\ ~LeProd((x + 1) * 256, b, a)
        ql == CHOOSE y \in 0..255 : LeProd(qh * 256 + y, b, a) /\ ~LeProd(qh * 256 + y + 1, b, a)
    IN  <<0, qh * 256 + ql>>

\* a / b on uint32 (unsigned, truncating), b # 0
Div(a, b) == IF b[1] = 0 THEN DivShort(a, b[2]) ELSE DivLong(a, b)

(***************************************************************************)
(* Instruction decoding, as the masks and shifts of spin() compute it      *)
(***************************************************************************)
\* instruction & 0xf0000000, as the number k of the case k << 28 it selects
OpOf(inst) == inst[1] \div 4096

\* (instruction & 0x000001C0) >> 6
RegA(inst) == (inst[2] \div 64) % 8

\* (instruction & 0x00000038) >> 3
RegB(inst) == (inst[2] \div 8) % 8

\* instruction & 0x00000007
RegC(inst) == inst[2] % 8

\* (instruction & 0x0e000000) >> 25
OrthoA(inst) == (inst[1] \div 512) % 8

\* instruction & 0x01ffffff
OrthoVal(inst) == <<inst[1] % 512, inst[2]>>

\* the platter of a standard instruction: operator number and registers A, B, C
Ins(op, a, b, c) == <<op * 4096, a * 64 + b * 8 + c>>

\* the platter of an Orthography instruction loading v < 2^16 into register a
Ortho(a, v) == <<13 * 4096 + a * 512, v>>

(***************************************************************************)
(* The execution finger: a Go int (64 bits), kept in the same two limbs    *)
(* with an unbounded high limb, so that int(platter) is the platter's own  *)
(* pair and ++ and -- never wrap.                                          *)
(***************************************************************************)
FingerInc(f) == IF f[2] = Limb - 1 THEN <<f[1] + 1, 0>> ELSE <<f[1], f[2] + 1>>

FingerDec(f) == IF f[2] = 0 THEN <<f[1] - 1, Limb - 1>> ELSE <<f[1], f[2] - 1>>

\* whether index i is within slice s (Go panics when it is not)
InRange(s, i) == i[1] = 0 /\ i[2] < Len(s)

\* s[i] for an index within the slice
At(s, i) == s[i[2] + 1]

(***************************************************************************)
(* The heap: map[platter][]platter                                         *)
(***************************************************************************)
EmptyHeap == [k \in {} |-> <<>>]

\* um.Heap[k]: the nil slice when k is no key of the map
HeapGet(h, k) == IF k \in DOMAIN h THEN h[k] ELSE <<>>

\* um.Heap[k] = v
HeapPut(h, k, v) == [x \in (DOMAIN h) \cup {k} |-> IF x = k THEN v ELSE h[x]]

\* delete(um.Heap, k)
HeapDel(h, k) == [x \in (DOMAIN h) \ {k} |-> h[x]]

\* make([]platter, n)
Zeros(n) == [i \in 1..n |-> Zero]

(***************************************************************************)
(* The machine: type UniversalMachine struct, and New                      *)
(***************************************************************************)
\* the zero time.Time of a machine that has not backed up yet
ZeroTime == -1

NoFolder == ""

New(folder) ==
    [ Gpr          |-> [r \in 0..7 |-> Zero],
      Heap         |-> EmptyHeap,
      NextHeap     |-> Zero,
      ExFinger     |-> Zero,
      backupFolder |-> folder,
      lastBackup   |-> ZeroTime ]

\* allocateHeapArray: the machine after the call, and the identifier returned
allocateHeapArray(u, len) ==
    LET next == Add(u.NextHeap, Plat(1))
    IN  [ um  |-> [u EXCEPT !.Heap = HeapPut(u.Heap, u.NextHeap, Zeros(len[2])),
                            !.NextHeap = next],
          ref |-> Sub(next, Plat(1)) ]

(***************************************************************************)
(* Program files: binary.Read of big-endian uint32s                        *)
(***************************************************************************)
\* the four bytes of a platter, most significant first
BytesOfPlatter(p) == <<p[1] \div 256, p[1] % 256, p[2] \div 256, p[2] % 256>>

RECURSIVE BytesOf(_)
BytesOf(prog) ==
    IF prog = <<>> THEN <<>> ELSE BytesOfPlatter(Head(prog)) \o BytesOf(Tail(prog))

\* the same four bytes read least significant first
LittleEndian(data, i) ==
    <<data[4 * i] * 256 + data[4 * i - 1], data[4 * i - 2] * 256 + data[4 * i - 3]>>

\* binary.BigEndian.Uint32 of the four bytes starting at byte offset 4 * (i - 1)
BigEndian(data, i) ==
    <<data[4 * i - 3] * 256 + data[4 * i - 2], data[4 * i - 1] * 256 + data[4 * i]>>

\* numPlatters := int(math.Ceil(float64(len(programData)) / 4))
NumPlatters(data) == (Len(data) + 3) \div 4

\* binary.Read into a slice of NumPlatters platters: an error (unexpected EOF)
\* when the data is shorter than 4 * NumPlatters bytes
ReadPlatters(data) ==
    IF 4 * NumPlatters(data) > Len(data)
    THEN [err |-> TRUE, platters |-> Zeros(NumPlatters(data))]
    ELSE [err |-> FALSE, platters |-> [i \in 1..NumPlatters(data) |-> BigEndian(data, i)]]

(***************************************************************************)
(* Snapshots: encoding/gob of the struct.  Only the exported fields are    *)
(* sent; a numeric field holding zero is omitted, an array and a non-nil   *)
(* map are always sent.  A stream is the sequence of <<field, value>>      *)
(* pairs sent; decoding sets the fields present in the stream, adds the    *)
(* decoded map entries to the receiver's map, and keeps the rest.          *)
(***************************************************************************)
Encode(u) ==
    << <<"Gpr", u.Gpr>>, <<"Heap", u.Heap>> >>
    \o (IF u.NextHeap = Zero THEN <<>> ELSE << <<"NextHeap", u.NextHeap>> >>)
    \o (IF u.ExFinger = Zero THEN <<>> ELSE << <<"ExFinger", u.ExFinger>> >>)

HasField(fields, name) == \E i \in 1..Len(fields) : fields[i][1] = name

Field(fields, name) == fields[CHOOSE i \in 1..Len(fields) : fields[i][1] = name][2]

MergeHeap(h, g) == [k \in (DOMAIN h) \cup (DOMAIN g) |-> IF k \in DOMAIN g THEN g[k] ELSE h[k]]

Decode(u, fields) ==
    [u EXCEPT
       !.Gpr      = IF HasField(fields, "Gpr") THEN Field(fields, "Gpr") ELSE @,
       !.Heap     = IF HasField(fields, "Heap") THEN MergeHeap(@, Field(fields, "Heap")) ELSE @,
       !.NextHeap = IF HasField(fields, "NextHeap") THEN Field(fields, "NextHeap") ELSE @,
       !.ExFinger = IF HasField(fields, "ExFinger") THEN Field(fields, "ExFinger") ELSE @]

\* a file holding a gob stream; complete is FALSE for a stream cut short,
\* which the decoder rejects
File(fields, complete) == [fields |-> fields, complete |-> complete]

(***************************************************************************)
(* Bounds of the model                                                     *)
(***************************************************************************)
\* the longest array opcode 8 is asked for before the model has make() run
\* out of memory
MaxAlloc == 3

\* the most bytes the console input delivers before it ends
MaxInput == 2

\* the most I/O failures (console read, backup write) injected in one run
MaxFaults == 1

\* the latest reading of the wall clock, in seconds
MaxNow == 1000

\* the console input delivers the bytes "A", "B", "C", ... in this order
FirstByte == 65

\* the seconds that may have passed on the wall clock between two readings
Elapse == {0, 60, 61, 900, 901}

\* time.Minute, in seconds
Minute == 60

(***************************************************************************)
(* Guest programs                                                          *)
(***************************************************************************)
\* read two bytes and echo each
EchoProg ==
    << Ins(11, 0, 0, 1), Ins(10, 0, 0, 1), Ins(11, 0, 0, 2), Ins(10, 0, 0, 2),
       Ins(7, 0, 0, 0) >>

\* allocate three platters, store and load back a value, output its low byte,
\* abandon the array and allocate another
StoreProg ==
    << Ortho(0, 3), Ins(8, 0, 1, 0), Ortho(3, 48879), Ins(2, 1, 2, 3),
       Ins(1, 4, 1, 2), Ins(10, 0, 0, 4), Ins(9, 0, 0, 1), Ins(8, 0, 5, 2),
       Ins(7, 0, 0, 0) >>

\* build the program <<Output R6, Halt>> in a fresh array from platters 11
\* and 12 of the running program, and load it
ReplaceProg ==
    << Ortho(1, 2), Ins(8, 0, 2, 1), Ortho(3, 11), Ins(1, 4, 0, 3),
       Ins(2, 2, 0, 4), Ortho(3, 12), Ins(1, 4, 0, 3), Ortho(5, 1),
       Ins(2, 2, 5, 4), Ortho(6, 66), Ins(12, 0, 2, 0), Ins(10, 0, 0, 6),
       Ins(7, 0, 0, 0) >>

\* arithmetic on wrapping values, both outcomes of a conditional move, an
\* undefined operator number, and a jump within the program over platter 10
ArithProg ==
    << Ins(6, 1, 0, 0), Ins(3, 2, 1, 1), Ins(4, 3, 1, 2), Ins(5, 4, 1, 3),
       Ins(0, 5, 4, 0), Ins(0, 5, 4, 3), <<14 * 4096, 0>>, Ins(10, 0, 0, 3),
       Ortho(7, 11), Ins(12, 0, 0, 7), Ins(10, 0, 0, 1), Ins(7, 0, 0, 0) >>

\* a division by zero
DivZeroProg == << Ins(5, 1, 0, 0), Ins(7, 0, 0, 0) >>

\* a program that runs off its end
RunOffProg == << Ortho(0, 1) >>

\* abandon array 0, then read and echo a byte
AbandonZeroProg ==
    << Ins(9, 0, 0, 0), Ins(11, 0, 0, 1), Ins(10, 0, 0, 1), Ins(7, 0, 0, 0) >>

\* until the input ends: allocate an array, read a byte, echo it and abandon
\* the array
\*    0 R3 := 3 (echo)          1 R6 := 5 (entry)      2 jump R6
\*    3 output R2               4 abandon R1           5 R1 := alloc(R0)
\*    6 R2 := input             7 R5 := ~(R2 & R2)     8 R4 := 11 (exit)
\*    9 if R5 # 0 then R4 := R3 10 jump R4            11 halt
LoopProg ==
    << Ortho(3, 3), Ortho(6, 5), Ins(12, 0, 0, 6), Ins(10, 0, 0, 2),
       Ins(9, 0, 0, 1), Ins(8, 0, 1, 0), Ins(11, 0, 0, 2), Ins(6, 5, 2, 2),
       Ortho(4, 11), Ins(0, 4, 3, 5), Ins(12, 0, 0, 4), Ins(7, 0, 0, 0) >>

\* build the program <<amend array 0, amend this array, Halt>> in a fresh
\* array from platters 15 to 17 of the running program, and load it
\*    0 R1 := 3                 1 R2 := alloc(R1)
\*    2..4   array[R2][0] := program[15]
\*    5..8   array[R2][1] := program[16]
\*    9..12  array[R2][2] := program[17]
\*   13 R7 := 66               14 load array R2, finger R0 = 0
\*   15 array[R0][R0] := R7    16 array[R2][R5] := R7     17 halt
CopyProg ==
    << Ortho(1, 3), Ins(8, 0, 2, 1),
       Ortho(3, 15), Ins(1, 4, 0, 3), Ins(2, 2, 0, 4),
       Ortho(3, 16), Ins(1, 4, 0, 3), Ortho(5, 1), Ins(2, 2, 5, 4),
       Ortho(3, 17), Ins(1, 4, 0, 3), Ortho(6, 2), Ins(2, 2, 6, 4),
       Ortho(7, 66), Ins(12, 0, 2, 0),
       Ins(2, 0, 0, 7), Ins(2, 2, 5, 7), Ins(7, 0, 0, 0) >>

\* a program that amends itself: it replaces the Halt at platter 5 by the
\* Output at platter 6 and jumps there
\*    0 R3 := 6                 1 R4 := program[R3]        2 R5 := 5
\*    3 program[R5] := R4       4 jump R5                  5 halt
\*    6 output R5               7 halt
PatchProg ==
    << Ortho(3, 6), Ins(1, 4, 0, 3), Ortho(5, 5), Ins(2, 0, 5, 4),
       Ins(12, 0, 0, 5), Ins(7, 0, 0, 0), Ins(10, 0, 0, 5), Ins(7, 0, 0, 0) >>

Programs ==
    { EchoProg, StoreProg, ReplaceProg, ArithProg, DivZeroProg, RunOffProg,
      AbandonZeroProg, LoopProg, CopyProg, PatchProg }

\* a program file: its bytes, and whether reading it fails (ioutil.ReadAll)
ProgramFile(data, readErr) == [data |-> data, readErr |-> readErr]

\* the files given as -p: each program, a program cut one and three bytes
\* short of a whole platter, and a file that cannot be read
ProgramFiles ==
    { ProgramFile(BytesOf(prog), FALSE) : prog \in Programs }
    \cup { ProgramFile(SubSeq(BytesOf(EchoProg), 1, 4 * Len(EchoProg) - k), FALSE) : k \in {1, 3} }
    \cup { ProgramFile(BytesOf(EchoProg), TRUE) }

\* The machine running LoopProg as backup() sees it in its Input once the next
\* identifier has come to n, the pass before having read byte b: every pass
\* abandons the array it holds and allocates the next identifier.
LoopMachine(n, b) ==
    [ New(NoFolder) EXCEPT
        !.Gpr      = [r \in 0..7 |->
                        CASE r = 1 -> Sub(n, Plat(1))
                          [] r = 2 -> Plat(b)
                          [] r = 3 -> Plat(3)
                          [] r = 4 -> Plat(3)
                          [] r = 5 -> Nand(Plat(b), Plat(b))
                          [] r = 6 -> Plat(5)
                          [] OTHER -> Zero],
        !.Heap     = HeapPut(HeapPut(EmptyHeap, Zero, LoopProg), Sub(n, Plat(1)), <<>>),
        !.NextHeap = n,
        !.ExFinger = Plat(7) ]

\* the files given as -r: the snapshots LoopProg writes when its next identifier
\* is 0xffffffff and when it has wrapped to 0, and a snapshot cut short
RestoreFiles ==
    { File(Encode(LoopMachine(AllOnes, 65)), TRUE),
      File(Encode(LoopMachine(Zero, 65)), TRUE),
      File(<< <<"Gpr", [r \in 0..7 |-> Zero]>> >>, FALSE) }

(***************************************************************************)
(* State.  Machine 1 is the machine cmd/um starts from a program file or a *)
(* restore file; machine 2 is a fresh machine restored from the backup.dat *)
(* machine 1 has written, reading the console input machine 1 had left.    *)
(***************************************************************************)
Machines == {1, 2}

VARIABLES
    um,           \* [Machines -> UniversalMachine]: the exported fields, the backup folder and time
    pc,           \* where each machine's flow of control is
    programHeap,  \* spin's local slice: its elements, and whether it still shares Heap[0]'s array
    haltErr,      \* the argument of the halt() call in progress
    done,         \* the completion channel: the values received from it, and how often it was closed
    stream,       \* the console input: the results of its Read calls so far, in order
    inPos,        \* how many Read calls each machine has made on stream
    consoleOut,   \* the bytes each machine has written
    fs,           \* the backup folder: backup.dat, temporary files left behind, archive copies
    now,          \* the wall clock, in seconds
    faults,       \* I/O failures injected so far
    last,         \* history: the instruction each machine executed last, with the state before it
    snap,         \* history: the machine whose snapshot backup.dat holds
    origin,       \* history: how each machine was loaded, from which file, and how much
                  \* machine 1 had written when the snapshot machine 2 starts from was taken
    misbehaved,   \* history: the guest has divided by zero, accessed or abandoned what it does not hold
    owned         \* history: the identifiers Allocation has handed to the guest and it has not abandoned

vars == << um, pc, programHeap, haltErr, done, stream, inPos, consoleOut, fs, now,
           faults, last, snap, origin, misbehaved, owned >>

NoRead == [n |-> 0, b |-> 0, err |-> "none"]

NoLast ==
    [ op |-> -1, inst |-> Zero, pre |-> New(NoFolder), preProgram |-> <<>>,
      preOut |-> <<>>, prePos |-> 0, read |-> NoRead, due |-> FALSE,
      wrote |-> FALSE, fault |-> "none", elapsed |-> 0,
      preFs |-> [backupDat |-> {}, tmp |-> <<>>, archives |-> {}] ]

NoFile == ProgramFile(<<>>, FALSE)

Init ==
    /\ \E folder \in {NoFolder, "backups"} :
          um = [m \in Machines |-> New(IF m = 1 THEN folder ELSE NoFolder)]
    /\ pc = [m \in Machines |-> "new"]
    /\ programHeap = [m \in Machines |-> [elems |-> <<>>, shared |-> FALSE]]
    /\ haltErr = [m \in Machines |-> "nil"]
    /\ done = [m \in Machines |-> [received |-> <<>>, closed |-> 0]]
    /\ stream = <<>>
    /\ inPos = [m \in Machines |-> 0]
    /\ consoleOut = [m \in Machines |-> <<>>]
    /\ fs = [backupDat |-> {}, tmp |-> <<>>, archives |-> {}]
    /\ now = 0
    /\ faults = 0
    /\ last = [m \in Machines |-> NoLast]
    /\ snap = [taken |-> FALSE, um |-> New(NoFolder), programHeap |-> <<>>,
               inPos |-> 0, outLen |-> 0]
    /\ origin = [m \in Machines |-> [how |-> "none", file |-> NoFile, outLen |-> 0]]
    /\ misbehaved = [m \in Machines |-> FALSE]
    /\ owned = [m \in Machines |-> {}]

\* The two machines are separate processes that share nothing but the file
\* backup.dat, which machine 2 only reads once: their steps commute, and the
\* model runs machine 2 to its end before machine 1 goes on.
Turn(m) == m = 2 \/ pc[2] \in {"new", "returned", "panic", "exit"}

(***************************************************************************)
(* The loaders                                                             *)
(***************************************************************************)
\* a LoadProgram that allocates array 0 before it converts the bytes
LoadProgramAllocFirst(u, file) ==
    IF file.readErr THEN [err |-> TRUE, um |-> u]
    ELSE LET r == ReadPlatters(file.data)
             a == allocateHeapArray(u, Plat(Len(r.platters)))
         IN  IF r.err THEN [err |-> TRUE, um |-> a.um]
             ELSE [err |-> FALSE,
                   um  |-> [a.um EXCEPT !.Heap = HeapPut(@, a.ref, r.platters)]]

\* LoadProgram: whether it returns an error, and the machine after it
LoadProgramResult(u, file) ==
    IF file.readErr THEN [err |-> TRUE, um |-> u]
    ELSE LET r == ReadPlatters(file.data)
         IN  IF r.err THEN [err |-> TRUE, um |-> u]
             ELSE LET a == allocateHeapArray(u, Plat(Len(r.platters)))
                  IN  [err |-> FALSE,
                       um  |-> [a.um EXCEPT !.Heap = HeapPut(@, a.ref, r.platters)]]

\* main: LoadProgram when -p is given; an error ends the process
LoadProgram(m) ==
    /\ m = 1
    /\ pc[m] = "new"
    /\ \E file \in ProgramFiles :
          LET r == LoadProgramResult(um[m], file)
          IN  /\ um' = [um EXCEPT ![m] = r.um]
              /\ pc' = [pc EXCEPT ![m] = IF r.err THEN "exit" ELSE "loaded"]
              /\ origin' = [origin EXCEPT ![m] = [how |-> "program", file |-> file, outLen |-> 0]]
              /\ owned' = [owned EXCEPT ![m] = {}]
    /\ UNCHANGED << programHeap, haltErr, done, stream, inPos, consoleOut, fs, now,
                    faults, last, snap, misbehaved >>

\* a LoadFromBackup that leaves the execution finger as decoded
LoadFromBackupNoRewind(u, file) ==
    IF ~file.complete THEN [err |-> TRUE, um |-> u]
    ELSE [err |-> FALSE, um |-> Decode(u, file.fields)]

\* LoadFromBackup: whether it returns an error, and the machine after it
LoadFromBackupResult(u, file) ==
    IF ~file.complete THEN [err |-> TRUE, um |-> u]
    ELSE [err |-> FALSE, um |-> [Decode(u, file.fields) EXCEPT !.ExFinger = FingerDec(@)]]

\* main: LoadFromBackup when -r is given; an error ends the process.  Machine 2
\* is restored from backup.dat right after machine 1 has written it.
LoadFromBackup(m) ==
    /\ pc[m] = "new"
    /\ Turn(m)
    /\ m = 2 => pc[1] \in {"spin", "send"} /\ last[1].wrote
    /\ \E file \in IF m = 1 THEN RestoreFiles ELSE fs.backupDat :
          LET r == LoadFromBackupResult(um[m], file)
          IN  /\ um' = [um EXCEPT ![m] = r.um]
              /\ pc' = [pc EXCEPT ![m] = IF r.err THEN "exit" ELSE "loaded"]
              /\ owned' = [owned EXCEPT ![m] = (DOMAIN r.um.Heap) \ {Zero}]
    /\ origin' = [origin EXCEPT ![m] = [how |-> "backup", file |-> NoFile,
                                         outLen |-> IF m = 2 THEN snap.outLen ELSE 0]]
    /\ inPos' = [inPos EXCEPT ![m] = IF m = 2 THEN snap.inPos ELSE 0]
    \* the guest machine 2 resumes has the history of machine 1's guest
    /\ misbehaved' = [misbehaved EXCEPT ![m] = IF m = 2 THEN misbehaved[1] ELSE @]
    /\ UNCHANGED << programHeap, haltErr, done, stream, consoleOut, fs, now, faults,
                    last, snap >>

\* Run: go um.spin(); spin first takes programHeap := um.Heap[0]
Run(m) ==
    /\ pc[m] = "loaded"
    /\ Turn(m)
    /\ pc' = [pc EXCEPT ![m] = "spin"]
    /\ programHeap' = [programHeap EXCEPT ![m] =
                          [elems |-> HeapGet(um[m].Heap, Zero), shared |-> Zero \in DOMAIN um[m].Heap]]
    /\ UNCHANGED << um, haltErr, done, stream, inPos, consoleOut, fs, now, faults,
                    last, snap, origin, misbehaved, owned >>

(***************************************************************************)
(* spin: the dispatch loop.  Each action is one pass of the loop: the      *)
(* fetch, ExFinger++, and the case of the switch the operator selects.     *)
(* A Go run-time panic (index out of range, division by zero, out of       *)
(* memory) ends the process: pc = "panic".                                 *)
(***************************************************************************)
Running(m) == pc[m] = "spin" /\ Turn(m)

\* instruction = programHeap[um.ExFinger] is within the slice
CanFetch(m) == Running(m) /\ InRange(programHeap[m].elems, um[m].ExFinger)

Inst(m) == At(programHeap[m].elems, um[m].ExFinger)

\* the machine after um.ExFinger++
Fetched(m) == [um[m] EXCEPT !.ExFinger = FingerInc(@)]

Dispatch(m, k) == CanFetch(m) /\ OpOf(Inst(m)) = k

History(m, read, due, wrote, fault, elapsed) ==
    [ op |-> OpOf(Inst(m)), inst |-> Inst(m), pre |-> um[m],
      preProgram |-> programHeap[m].elems, preOut |-> consoleOut[m],
      prePos |-> inPos[m], read |-> read, due |-> due, wrote |-> wrote,
      fault |-> fault, elapsed |-> elapsed, preFs |-> fs ]

\* what a pass of the loop that does no I/O and does not halt leaves
Exec(m, u2, ph2, panic, mis, own2) ==
    /\ um' = [um EXCEPT ![m] = u2]
    /\ programHeap' = [programHeap EXCEPT ![m] = ph2]
    /\ pc' = [pc EXCEPT ![m] = IF panic THEN "panic" ELSE "spin"]
    /\ misbehaved' = [misbehaved EXCEPT ![m] = @ \/ mis]
    /\ owned' = [owned EXCEPT ![m] = own2]
    /\ last' = [last EXCEPT ![m] = History(m, NoRead, FALSE, FALSE, "none", 0)]
    /\ UNCHANGED << haltErr, done, stream, inPos, consoleOut, fs, now, faults, snap, origin >>

SetReg(u, r, v) == [u EXCEPT !.Gpr[r] = v]

\* the fetch itself is out of range
FetchPanic(m) ==
    /\ Running(m)
    /\ ~InRange(programHeap[m].elems, um[m].ExFinger)
    /\ pc' = [pc EXCEPT ![m] = "panic"]
    /\ UNCHANGED << um, programHeap, haltErr, done, stream, inPos, consoleOut, fs, now,
                    faults, last, snap, origin, misbehaved, owned >>

\* #0. Conditional Move
CondMoveOp(u, inst) ==
    IF u.Gpr[RegC(inst)] # Zero THEN SetReg(u, RegA(inst), u.Gpr[RegB(inst)]) ELSE u

CondMove(m) ==
    /\ Dispatch(m, 0)
    /\ Exec(m, CondMoveOp(Fetched(m), Inst(m)), programHeap[m], FALSE, FALSE, owned[m])

\* #1. Array Index
ArrayIndexOp(u, inst) ==
    SetReg(u, RegA(inst), At(HeapGet(u.Heap, u.Gpr[RegB(inst)]), u.Gpr[RegC(inst)]))

ArrayIndex(m) ==
    /\ Dispatch(m, 1)
    /\ LET u  == Fetched(m)
           ok == InRange(HeapGet(u.Heap, u.Gpr[RegB(Inst(m))]), u.Gpr[RegC(Inst(m))])
       IN  Exec(m, IF ok THEN ArrayIndexOp(u, Inst(m)) ELSE u, programHeap[m],
                ~ok, ~ok, owned[m])

\* #2. Array Amendment.  The array of identifier 0 is also spin's programHeap
\* for as long as the two slices share their array.
ArrayAmendOp(u, inst) ==
    LET id == u.Gpr[RegA(inst)]
    IN  [u EXCEPT !.Heap[id][u.Gpr[RegB(inst)][2] + 1] = u.Gpr[RegC(inst)]]

ArrayAmend(m) ==
    /\ Dispatch(m, 2)
    /\ LET u  == Fetched(m)
           id == u.Gpr[RegA(Inst(m))]
           ok == InRange(HeapGet(u.Heap, id), u.Gpr[RegB(Inst(m))])
           u2 == IF ok THEN ArrayAmendOp(u, Inst(m)) ELSE u
       IN  Exec(m, u2,
                IF ok /\ id = Zero /\ programHeap[m].shared
                THEN [programHeap[m] EXCEPT !.elems = u2.Heap[Zero]]
                ELSE programHeap[m],
                ~ok, ~ok, owned[m])

\* #3. Addition
AdditionOp(u, inst) == SetReg(u, RegA(inst), Add(u.Gpr[RegB(inst)], u.Gpr[RegC(inst)]))

Addition(m) ==
    /\ Dispatch(m, 3)
    /\ Exec(m, AdditionOp(Fetched(m), Inst(m)), programHeap[m], FALSE, FALSE, owned[m])

\* #4. Multiplication
MultiplicationOp(u, inst) == SetReg(u, RegA(inst), Mul(u.Gpr[RegB(inst)], u.Gpr[RegC(inst)]))

Multiplication(m) ==
    /\ Dispatch(m, 4)
    /\ Exec(m, MultiplicationOp(Fetched(m), Inst(m)), programHeap[m], FALSE, FALSE, owned[m])

\* #5. Division: Go panics on a zero divisor
DivisionOp(u, inst) == SetReg(u, RegA(inst), Div(u.Gpr[RegB(inst)], u.Gpr[RegC(inst)]))

Division(m) ==
    /\ Dispatch(m, 5)
    /\ LET u  == Fetched(m)
           ok == u.Gpr[RegC(Inst(m))] # Zero
       IN  Exec(m, IF ok THEN DivisionOp(u, Inst(m)) ELSE u, programHeap[m],
                ~ok, ~ok, owned[m])

\* #6. Not-And
NotAndOp(u, inst) == SetReg(u, RegA(inst), Nand(u.Gpr[RegB(inst)], u.Gpr[RegC(inst)]))

NotAnd(m) ==
    /\ Dispatch(m, 6)
    /\ Exec(m, NotAndOp(Fetched(m), Inst(m)), programHeap[m], FALSE, FALSE, owned[m])

\* #8. Allocation
AllocationOp(u, inst) ==
    LET a == allocateHeapArray(u, u.Gpr[RegC(inst)])
    IN  SetReg(a.um, RegB(inst), a.ref)

Allocation(m) ==
    /\ Dispatch(m, 8)
    /\ LET u   == Fetched(m)
           len == u.Gpr[RegC(Inst(m))]
           ok  == len[1] = 0 /\ len[2] <= MaxAlloc
           u2  == IF ok THEN AllocationOp(u, Inst(m)) ELSE u
       IN  Exec(m, u2,
                \* um.Heap[0] is given another array: programHeap keeps the old one
                IF ok /\ u.NextHeap = Zero
                THEN [programHeap[m] EXCEPT !.shared = FALSE]
                ELSE programHeap[m],
                ~ok, FALSE,
                IF ok THEN owned[m] \cup {u2.Gpr[RegB(Inst(m))]} ELSE owned[m])

\* #7. Halt: um.halt(nil), which first sends on the unbuffered channel
Halt(m) ==
    /\ Dispatch(m, 7)
    /\ um' = [um EXCEPT ![m] = Fetched(m)]
    /\ pc' = [pc EXCEPT ![m] = "send"]
    /\ haltErr' = [haltErr EXCEPT ![m] = "nil"]
    /\ last' = [last EXCEPT ![m] = History(m, NoRead, FALSE, FALSE, "none", 0)]
    /\ UNCHANGED << programHeap, done, stream, inPos, consoleOut, fs, now, faults,
                    snap, origin, misbehaved, owned >>

\* #9. Abandonment
AbandonmentOp(u, inst) == [u EXCEPT !.Heap = HeapDel(@, u.Gpr[RegC(inst)])]

Abandonment(m) ==
    /\ Dispatch(m, 9)
    /\ LET u  == Fetched(m)
           id == u.Gpr[RegC(Inst(m))]
       IN  Exec(m, AbandonmentOp(u, Inst(m)),
                \* um.Heap[0] is gone: programHeap keeps its array
                IF id = Zero THEN [programHeap[m] EXCEPT !.shared = FALSE] ELSE programHeap[m],
                FALSE, id \notin owned[m], owned[m] \ {id})

\* an Output that writes the low 7 bits
OutputLow7(u, inst) == u.Gpr[RegC(inst)][2] % 128

\* #10. Output: the byte uint8(um.Gpr[C]) handed to consoleOut.Write
OutputByte(u, inst) == u.Gpr[RegC(inst)][2] % 256

Output(m) ==
    /\ Dispatch(m, 10)
    /\ um' = [um EXCEPT ![m] = Fetched(m)]
    /\ consoleOut' = [consoleOut EXCEPT ![m] = Append(@, OutputByte(Fetched(m), Inst(m)))]
    /\ last' = [last EXCEPT ![m] = History(m, NoRead, FALSE, FALSE, "none", 0)]
    /\ UNCHANGED << pc, programHeap, haltErr, done, stream, inPos, fs, now, faults,
                    snap, origin, misbehaved, owned >>

\* a Load Program that runs the copy without storing it as array 0
LoadProgramOpUnstored(u, ph, inst) ==
    LET valInRegB  == u.Gpr[RegB(inst)]
        newProgram == HeapGet(u.Heap, valInRegB)
    IN  [ um |-> [u EXCEPT !.ExFinger = u.Gpr[RegC(inst)]],
          programHeap |-> IF valInRegB # Zero
                          THEN [elems |-> newProgram, shared |-> FALSE]
                          ELSE ph ]

\* a Load Program that moves the array instead of copying it: the source is
\* gone from the heap
LoadProgramOpMoves(u, ph, inst) ==
    LET valInRegB  == u.Gpr[RegB(inst)]
        newProgram == HeapGet(u.Heap, valInRegB)
        u2 == IF valInRegB # Zero
              THEN [u EXCEPT !.Heap = HeapDel(HeapPut(@, Zero, newProgram), valInRegB)]
              ELSE u
    IN  [ um |-> [u2 EXCEPT !.ExFinger = u.Gpr[RegC(inst)]],
          programHeap |-> IF valInRegB # Zero
                          THEN [elems |-> newProgram, shared |-> TRUE]
                          ELSE ph ]

\* a Load Program that sets the execution finger only when it copies
LoadProgramOpNoJump(u, ph, inst) ==
    LET valInRegB  == u.Gpr[RegB(inst)]
        newProgram == HeapGet(u.Heap, valInRegB)
    IN  IF valInRegB # Zero
        THEN [ um |-> [u EXCEPT !.Heap = HeapPut(@, Zero, newProgram),
                                !.ExFinger = u.Gpr[RegC(inst)]],
               programHeap |-> [elems |-> newProgram, shared |-> TRUE] ]
        ELSE [ um |-> u, programHeap |-> ph ]

\* #12. Load Program: the machine and spin's programHeap after it
LoadProgramOp(u, ph, inst) ==
    LET valInRegB  == u.Gpr[RegB(inst)]
        newProgram == HeapGet(u.Heap, valInRegB)
        u2 == IF valInRegB # Zero THEN [u EXCEPT !.Heap = HeapPut(@, Zero, newProgram)] ELSE u
    IN  [ um |-> [u2 EXCEPT !.ExFinger = u.Gpr[RegC(inst)]],
          programHeap |-> IF valInRegB # Zero
                          THEN [elems |-> newProgram, shared |-> TRUE]
                          ELSE ph ]

LoadProgramArray(m) ==
    /\ Dispatch(m, 12)
    /\ LET u == Fetched(m)
           r == LoadProgramOp(u, programHeap[m], Inst(m))
           b == u.Gpr[RegB(Inst(m))]
       IN  Exec(m, r.um, r.programHeap, FALSE, b # Zero /\ b \notin DOMAIN u.Heap, owned[m])

\* #13. Orthography
OrthographyOp(u, inst) == SetReg(u, OrthoA(inst), OrthoVal(inst))

Orthography(m) ==
    /\ Dispatch(m, 13)
    /\ Exec(m, OrthographyOp(Fetched(m), Inst(m)), programHeap[m], FALSE, FALSE, owned[m])

\* operator numbers 14 and 15: no case of the switch, the loop goes on
NoCase(m) ==
    /\ CanFetch(m)
    /\ OpOf(Inst(m)) \in {14, 15}
    /\ Exec(m, Fetched(m), programHeap[m], FALSE, FALSE, owned[m])

(***************************************************************************)
(* The checkpointer                                                        *)
(***************************************************************************)
\* time.Since(um.lastBackup) > d at clock reading t; the zero time is further
\* back than any d
SinceExceeds(lastBackup, t, d) == lastBackup = ZeroTime \/ t - lastBackup > d

\* backup: whether a checkpoint is due
BackupDue(u, t) == u.backupFolder # NoFolder /\ SinceExceeds(u.lastBackup, t, Minute)

\* backup: whether the checkpoint also writes the timestamped file
WithTimestampFile(u, t) == SinceExceeds(u.lastBackup, t, 15 * Minute)

\* the failures of one doBackup call: creating the temporary file, encoding
\* into it, creating the timestamped file, renaming to backup.dat
BackupFaults == {"create", "encode", "archive", "rename"}

\* the archive copies after writing file under the name of second t
PutArchive(archives, t, file) == {a \in archives : a[1] # t} \cup {<<t, file>>}

\* a doBackup that gives up when the timestamped file cannot be written,
\* leaving the temporary file behind
doBackupArchiveFatal(f, u, withTimestampFile, fault, t) ==
    LET file == File(Encode(u), TRUE)
        arch == IF withTimestampFile THEN PutArchive(f.archives, t, file) ELSE f.archives
    IN  CASE fault = "create"  -> f
          [] fault = "encode"  -> [f EXCEPT !.tmp = Append(@, File(SubSeq(file.fields, 1, 1), FALSE))]
          [] fault = "archive" -> [f EXCEPT !.tmp = Append(@, file)]
          [] fault = "rename"  -> [f EXCEPT !.archives = arch, !.tmp = Append(@, file)]
          [] OTHER             -> [f EXCEPT !.archives = arch, !.backupDat = {file}]

\* doBackup: the backup folder after the call
doBackup(f, u, withTimestampFile, fault, t) ==
    LET file == File(Encode(u), TRUE)
        arch == IF withTimestampFile /\ fault # "archive"
                THEN PutArchive(f.archives, t, file)
                ELSE f.archives
    IN  CASE fault = "create" -> f
          [] fault = "encode" -> [f EXCEPT !.tmp = Append(@, File(SubSeq(file.fields, 1, 1), FALSE))]
          [] fault = "rename" -> [f EXCEPT !.archives = arch, !.tmp = Append(@, file)]
          [] OTHER            -> [f EXCEPT !.archives = arch, !.backupDat = {file}]

\* whether doBackup replaced backup.dat
Wrote(fault) == fault \notin {"create", "encode", "rename"}

(***************************************************************************)
(* #11. Input                                                              *)
(***************************************************************************)
ReadResult(n, b, err) == [n |-> n, b |-> b, err |-> err]

BytesRead == Cardinality({i \in 1..Len(stream) : stream[i].n = 1})

\* what the next Read call on the console input may return (io.Reader): a
\* byte, a byte together with io.EOF, io.EOF alone, or another error; once
\* io.EOF was returned, io.EOF alone
NextReads ==
    IF stream # <<>> /\ stream[Len(stream)].err = "EOF"
    THEN {ReadResult(0, 0, "EOF")}
    ELSE {ReadResult(0, 0, "EOF")}
         \cup (IF BytesRead < MaxInput
               THEN {ReadResult(1, FirstByte + BytesRead, e) : e \in {"nil", "EOF"}}
               ELSE {})
         \cup (IF faults < MaxFaults THEN {ReadResult(0, 0, "fail")} ELSE {})

\* the registers after count, err := um.consoleIn.Read(ip)
InputOp(u, inst, r) ==
    LET u1 == IF r.n = 1 THEN SetReg(u, RegC(inst), Plat(r.b)) ELSE u
    IN  IF r.err = "EOF" THEN SetReg(u1, RegC(inst), AllOnes) ELSE u1

\* fmt.Errorf("error reading from stdin: %s", err)
ReadError == "error reading from stdin"

\* an Input that goes on after every read error
InputNeverHalts(r) == FALSE

\* whether the read ends the run: um.halt(err) for an error that is not io.EOF
InputHalts(r) == r.err \notin {"nil", "EOF"}

Input(m) ==
    /\ Dispatch(m, 11)
    /\ \E d \in Elapse, fault \in BackupFaults \cup {"none"} :
         LET u       == Fetched(m)
             t       == IF u.backupFolder = NoFolder THEN now ELSE now + d
             due     == BackupDue(u, t)
             u1      == IF due THEN [u EXCEPT !.lastBackup = t] ELSE u
             old     == inPos[m] < Len(stream)
         IN  /\ t <= MaxNow
             /\ u.backupFolder = NoFolder => d = 0
             /\ ~due => fault = "none"
             /\ fault # "none" => faults < MaxFaults
             /\ now' = t
             /\ fs' = IF due THEN doBackup(fs, u, WithTimestampFile(u, t), fault, t) ELSE fs
             /\ snap' = IF due /\ Wrote(fault)
                        THEN [taken |-> TRUE, um |-> u, programHeap |-> programHeap[m].elems,
                              inPos |-> inPos[m], outLen |-> Len(consoleOut[m])]
                        ELSE snap
             /\ \E r \in IF old THEN {stream[inPos[m] + 1]} ELSE NextReads :
                  /\ old \/ r.err # "fail" \/ fault = "none"
                  /\ stream' = IF old THEN stream ELSE Append(stream, r)
                  /\ faults' = faults + (IF fault # "none" THEN 1 ELSE 0)
                                      + (IF ~old /\ r.err = "fail" THEN 1 ELSE 0)
                  /\ inPos' = [inPos EXCEPT ![m] = @ + 1]
                  /\ um' = [um EXCEPT ![m] = InputOp(u1, Inst(m), r)]
                  /\ pc' = [pc EXCEPT ![m] = IF InputHalts(r) THEN "send" ELSE "spin"]
                  /\ haltErr' = [haltErr EXCEPT ![m] =
                                   IF InputHalts(r) THEN ReadError ELSE @]
                  /\ last' = [last EXCEPT ![m] =
                                History(m, r, due, due /\ Wrote(fault), fault, d)]
    /\ UNCHANGED << programHeap, done, consoleOut, origin, misbehaved, owned >>

(***************************************************************************)
(* The completion channel: um.done is unbuffered, so halt's send waits for *)
(* the embedder's receive from Done(); halt then closes the channel and    *)
(* spin returns.                                                           *)
(***************************************************************************)
\* the embedder's <-um.Done() meeting halt's um.done <- err
Receive(m) ==
    /\ pc[m] = "send"
    /\ Turn(m)
    /\ done' = [done EXCEPT ![m].received = Append(@, haltErr[m])]
    /\ pc' = [pc EXCEPT ![m] = "close"]
    /\ UNCHANGED << um, programHeap, haltErr, stream, inPos, consoleOut, fs, now, faults,
                    last, snap, origin, misbehaved, owned >>

\* a halt after which spin does not return but goes on with its loop
CloseNoReturn(m) ==
    /\ pc[m] = "close"
    /\ Turn(m)
    /\ done' = [done EXCEPT ![m].closed = @ + 1]
    /\ pc' = [pc EXCEPT ![m] = "spin"]
    /\ UNCHANGED << um, programHeap, haltErr, stream, inPos, consoleOut, fs, now, faults,
                    last, snap, origin, misbehaved, owned >>

\* halt's close(um.done), and spin's return
Close(m) ==
    /\ pc[m] = "close"
    /\ Turn(m)
    /\ done' = [done EXCEPT ![m].closed = @ + 1]
    /\ pc' = [pc EXCEPT ![m] = "returned"]
    /\ UNCHANGED << um, programHeap, haltErr, stream, inPos, consoleOut, fs, now, faults,
                    last, snap, origin, misbehaved, owned >>

Next ==
    \E m \in Machines :
        \/ LoadProgram(m)
        \/ LoadFromBackup(m)
        \/ Run(m)
        \/ FetchPanic(m)
        \/ CondMove(m)
        \/ ArrayIndex(m)
        \/ ArrayAmend(m)
        \/ Addition(m)
        \/ Multiplication(m)
        \/ Division(m)
        \/ NotAnd(m)
        \/ Halt(m)
        \/ Allocation(m)
        \/ Abandonment(m)
        \/ Output(m)
        \/ Input(m)
        \/ LoadProgramArray(m)
        \/ Orthography(m)
        \/ NoCase(m)
        \/ Receive(m)
        \/ Close(m)

Spec == Init /\ [][Next]_vars

(***************************************************************************)
(* Properties.  last[m] records the instruction machine m executed last    *)
(* and the machine as it was before that instruction.                      *)
(***************************************************************************)
Terminal(m) == pc[m] \in {"returned", "panic"}

Halting(m) == pc[m] \in {"send", "close", "returned"}

\* machine m has just executed operator k, without a run-time panic
Executed(m, k) == last[m].op = k /\ pc[m] \in {"spin", "send"}

\* C1: opcode 8 (Allocation) places in R[B] an identifier that is not 0 and is
\* not the identifier of any array that was live immediately before the
\* allocation, and the array it creates has length R[C], every platter 0.
C1_AllocationFresh ==
    \A m \in Machines :
        Executed(m, 8) =>
            LET id  == um[m].Gpr[RegB(last[m].inst)]
                len == last[m].pre.Gpr[RegC(last[m].inst)]
            IN  /\ id # Zero
                /\ id \notin DOMAIN last[m].pre.Heap
                /\ id \in DOMAIN um[m].Heap
                /\ um[m].Heap[id] = Zeros(len[2])

\* LoopProg loaded by LoadProgram stands, each time it comes to its Input
\* having read a byte, as LoopMachine says
LoopMachineReached ==
    (/\ origin[1].how = "program"
     /\ origin[1].file = ProgramFile(BytesOf(LoopProg), FALSE)
     /\ Executed(1, 11)
     /\ last[1].prePos > 0) =>
        LET u == [last[1].pre EXCEPT !.ExFinger = FingerInc(@)]
            b == stream[last[1].prePos].b
            e == LoopMachine(u.NextHeap, b)
        IN  /\ u.Gpr = e.Gpr
            /\ u.Heap = e.Heap
            /\ u.ExFinger = e.ExFinger

\* C2: after opcode 12 (Load Program) with R[B] # 0 naming a live array, array 0
\* has the length and the platters that array had immediately before the
\* instruction, and the program spin runs is that copy; for every R[B] the
\* execution finger equals R[C].
C2_LoadProgramCopies ==
    \A m \in Machines :
        Executed(m, 12) =>
            LET pre == last[m].pre
                b   == pre.Gpr[RegB(last[m].inst)]
                c   == pre.Gpr[RegC(last[m].inst)]
            IN  /\ um[m].ExFinger = c
                /\ (b # Zero /\ b \in DOMAIN pre.Heap) =>
                      /\ Zero \in DOMAIN um[m].Heap
                      /\ Len(um[m].Heap[Zero]) = Len(pre.Heap[b])
                      /\ um[m].Heap[Zero] = pre.Heap[b]
                      /\ programHeap[m].elems = pre.Heap[b]

\* C2 happens: a Load Program from a live array other than 0 that holds a
\* program different from the one running, and a Load Program with R[B] = 0
C2_Witness ==
    \E m \in Machines :
        /\ Executed(m, 12)
        /\ LET b == last[m].pre.Gpr[RegB(last[m].inst)]
           IN  /\ b # Zero
               /\ b \in DOMAIN last[m].pre.Heap
               /\ Len(last[m].pre.Heap[b]) = 2
               /\ last[m].pre.Heap[b] # last[m].preProgram
               /\ um[m].ExFinger = Zero

\* C3: restoring the snapshot encoded from machine M at its Input into a fresh
\* machine yields M's registers, M's arrays under their identifiers and M's
\* next identifier, and an execution finger one less than M's, which indexes
\* the Input instruction M was dispatching.
C3_SnapshotRoundTrip ==
    (pc[2] = "loaded" /\ origin[2].how = "backup") =>
        /\ snap.taken
        /\ um[2].Gpr = snap.um.Gpr
        /\ um[2].Heap = snap.um.Heap
        /\ um[2].NextHeap = snap.um.NextHeap
        /\ um[2].ExFinger = FingerDec(snap.um.ExFinger)
        /\ InRange(snap.programHeap, um[2].ExFinger)
        /\ OpOf(At(snap.programHeap, um[2].ExFinger)) = 11

\* C3 happens: a snapshot of a machine holding two arrays, non-zero registers
\* and a next identifier other than 0 has been restored
C3_Witness ==
    /\ pc[2] = "loaded"
    /\ origin[2].how = "backup"
    /\ Cardinality(DOMAIN um[2].Heap) = 2
    /\ um[2].NextHeap = Plat(3)
    /\ um[2].Gpr[2] = Plat(FirstByte)
    /\ um[2].ExFinger = Plat(6)

\* C4: a fresh machine restored from a snapshot and the machine that took it,
\* both run to completion on the same remaining input, write the same bytes
\* from the snapshot on.  Stated for guests that do nothing the machine leaves
\* undefined.
C4_RestoreEquivalent ==
    (/\ origin[2].how = "backup"
     /\ Terminal(1) /\ Terminal(2)
     /\ ~misbehaved[1]) =>
        consoleOut[2] = SubSeq(consoleOut[1], origin[2].outLen + 1, Len(consoleOut[1]))

\* The same for a machine 1 started by LoadProgram, whose next identifier is
\* far from wrapping
RestoreEquivalentFromProgram ==
    (/\ origin[1].how = "program"
     /\ origin[2].how = "backup"
     /\ Terminal(1) /\ Terminal(2)
     /\ ~misbehaved[1]) =>
        consoleOut[2] = SubSeq(consoleOut[1], origin[2].outLen + 1, Len(consoleOut[1]))

\* C5: after LoadProgram succeeds on a file of 4N bytes, array 0 is the N
\* platters the bytes spell most significant byte first, it is the only array,
\* the next identifier is 1 and the execution finger is 0.
C5_LoadProgramInstalls ==
    (pc[1] = "loaded" /\ origin[1].how = "program") =>
        /\ DOMAIN um[1].Heap = {Zero}
        /\ 4 * Len(um[1].Heap[Zero]) = Len(origin[1].file.data)
        /\ BytesOf(um[1].Heap[Zero]) = origin[1].file.data
        /\ um[1].NextHeap = Plat(1)
        /\ um[1].ExFinger = Zero

\* C5 happens: a program of thirteen platters has been loaded
C5_Witness ==
    /\ pc[1] = "loaded"
    /\ origin[1].how = "program"
    /\ Len(origin[1].file.data) = 52
    /\ um[1].Heap[Zero] = ReplaceProg

\* C6: when LoadProgram returns an error, for a file that cannot be read or
\* whose length is no multiple of 4, the registers, the heap, the next
\* identifier and the execution finger are as they were before the call.
C6_LoadProgramErrorUntouched ==
    (pc[1] = "exit" /\ origin[1].how = "program") =>
        /\ origin[1].file.readErr \/ Len(origin[1].file.data) % 4 # 0
        /\ um[1].Gpr = New(NoFolder).Gpr
        /\ um[1].Heap = EmptyHeap
        /\ um[1].NextHeap = Zero
        /\ um[1].ExFinger = Zero

\* C6 happens: LoadProgram has rejected a file whose length is no multiple of 4
C6_Witness ==
    /\ pc[1] = "exit"
    /\ origin[1].how = "program"
    /\ ~origin[1].file.readErr
    /\ Len(origin[1].file.data) % 4 = 1

\* C6 happens also for a file that cannot be read
C6_WitnessUnreadable ==
    /\ pc[1] = "exit"
    /\ origin[1].how = "program"
    /\ origin[1].file.readErr

\* C7: each executed opcode 11 (Input) consumes exactly one byte of the
\* console input and leaves that byte in R[C], the bytes coming in the order
\* of the input with none skipped; at end of input it leaves 0xFFFFFFFF in
\* R[C] and consumes nothing.
C7_InputOneByte ==
    \A m \in Machines :
        Executed(m, 11) /\ last[m].read.err # "fail" =>
            LET r == last[m].read
                c == RegC(last[m].inst)
            IN  /\ inPos[m] = last[m].prePos + 1
                /\ r = stream[inPos[m]]
                /\ IF r.n = 1
                   THEN um[m].Gpr[c] = Plat(r.b)
                   ELSE r.err = "EOF" /\ um[m].Gpr[c] = AllOnes

\* C7 for a console input that reports its end only by a read of no bytes, as
\* os.Stdin does
InputOneByteFile ==
    \A m \in Machines :
        (/\ Executed(m, 11)
         /\ last[m].read.err # "fail"
         /\ \A i \in 1..Len(stream) : ~(stream[i].n = 1 /\ stream[i].err = "EOF")) =>
            LET r == last[m].read
                c == RegC(last[m].inst)
            IN  /\ inPos[m] = last[m].prePos + 1
                /\ r = stream[inPos[m]]
                /\ IF r.n = 1
                   THEN um[m].Gpr[c] = Plat(r.b)
                   ELSE r.err = "EOF" /\ um[m].Gpr[c] = AllOnes

\* C8: the bytes written to the console output are, in execution order, the
\* low 8 bits of R[C] at each opcode 10 (Output) executed: one byte for each
\* executed opcode 10 and none for any other instruction.
C8_OutputLowByte ==
    \A m \in Machines :
        IF last[m].op = -1
        THEN consoleOut[m] = <<>>
        ELSE consoleOut[m] =
                IF last[m].op = 10
                THEN Append(last[m].preOut,
                            last[m].pre.Gpr[RegC(last[m].inst)][2] % 256)
                ELSE last[m].preOut

\* C8 happens: an Output of a register holding more than 255 has written its
\* low 8 bits after an earlier byte
C8_Witness ==
    \E m \in Machines :
        /\ last[m].op = 10
        /\ last[m].pre.Gpr[RegC(last[m].inst)] = AllOnes
        /\ consoleOut[m] = <<FirstByte, 255>>

C10_ReadErrorHalts ==
    \A m \in Machines :
        /\ (last[m].op = 11 /\ last[m].read.err = "fail") => haltErr[m] = ReadError
        /\ haltErr[m] = ReadError =>
              /\ last[m].op = 11 /\ last[m].read.err = "fail"
              /\ Halting(m)
              /\ pc[m] # "send" => done[m].received = <<ReadError>>
              /\ um[m].ExFinger = FingerInc(last[m].pre.ExFinger)
              /\ um[m].Gpr = last[m].pre.Gpr
              /\ consoleOut[m] = last[m].preOut

\* C10 happens: spin has returned after a failed read whose error was received
C10_Witness ==
    \E m \in Machines :
        /\ pc[m] = "returned"
        /\ last[m].op = 11
        /\ last[m].read.err = "fail"
        /\ done[m] = [received |-> <<ReadError>>, closed |-> 1]

\* C11: from the start of Run until the machine halts the heap holds an array
\* of identifier 0, whatever the program executes.  Stated for guests that do
\* nothing the machine leaves undefined.
C11_ZeroArrayLive ==
    \A m \in Machines :
        (pc[m] \in {"spin", "send", "close"} /\ ~misbehaved[m]) =>
            Zero \in DOMAIN um[m].Heap

\* The same for a machine 1 started by LoadProgram, whose next identifier is
\* far from wrapping
ZeroArrayLiveFromProgram ==
    (origin[1].how = "program" /\ pc[1] \in {"spin", "send", "close"} /\ ~misbehaved[1]) =>
        Zero \in DOMAIN um[1].Heap

\* the snapshot the Input machine m executed last encodes: the machine as
\* backup() sees it, the execution finger already past the Input
SnapshotOf(m) == File(Encode([last[m].pre EXCEPT !.ExFinger = FingerInc(@)]), TRUE)

\* machine m has just executed an Input in which backup() called doBackup
Checkpointed(m) == last[m].op = 11 /\ last[m].due

\* C12: backup.dat is absent or holds one complete snapshot; a checkpoint whose
\* temporary file creation, encoding or rename fails leaves backup.dat as it
\* was; a checkpoint whose every step succeeds leaves backup.dat equal to the
\* current snapshot and no temporary file in the backup folder.
C12_AtomicCheckpoint ==
    /\ Cardinality(fs.backupDat) <= 1
    /\ \A f \in fs.backupDat : f.complete
    /\ \A m \in Machines :
          Checkpointed(m) =>
              /\ last[m].fault \in {"create", "encode", "rename"} =>
                    fs.backupDat = last[m].preFs.backupDat
              /\ last[m].fault = "none" =>
                    /\ fs.backupDat = {SnapshotOf(m)}
                    /\ fs.tmp = <<>>

\* The same, with a successful checkpoint leaving no temporary file of its
\* own: those that failed checkpoints left behind stay
CheckpointAtomicOwnFile ==
    /\ Cardinality(fs.backupDat) <= 1
    /\ \A f \in fs.backupDat : f.complete
    /\ \A m \in Machines :
          Checkpointed(m) =>
              /\ last[m].fault \in {"create", "encode", "rename"} =>
                    fs.backupDat = last[m].preFs.backupDat
              /\ last[m].fault = "none" =>
                    /\ fs.backupDat = {SnapshotOf(m)}
                    /\ fs.tmp = last[m].preFs.tmp

\* the seconds between the checkpoint before it and the Input machine m
\* executed last, or -1 when the machine had made no checkpoint
SinceLast(m) ==
    IF last[m].pre.lastBackup = ZeroTime THEN -1 ELSE now - last[m].pre.lastBackup

\* the Input machine m executed last wrote an archive copy
Archived(m) == fs.archives # last[m].preFs.archives

\* the Input machine m executed last got as far as the archive copy, if it
\* was to write one
ReachedArchive(m) == last[m].due /\ last[m].fault \in {"none", "rename"}

\* no other machine has acted since machine m executed its last instruction
Unpassed(m) == m = 1 \/ ~Turn(1)

\* C13: backup(), called at each opcode 11 before the read, writes nothing
\* without a backup folder; with one it attempts a checkpoint exactly when at
\* least 60 seconds have passed since the last checkpoint, writes the archive
\* copy as well exactly when at least 900 seconds have passed, and sets the
\* time of the last checkpoint to now after every attempt, failed or not; two
\* checkpoints are never less than 60 seconds apart.
C13_CheckpointGate ==
    \A m \in Machines :
        last[m].op = 11 =>
            /\ um[m].backupFolder = NoFolder =>
                  ~last[m].due /\ (Unpassed(m) => fs = last[m].preFs)
            /\ um[m].backupFolder # NoFolder =>
                  /\ last[m].due <=> (SinceLast(m) = -1 \/ SinceLast(m) >= 60)
                  /\ ReachedArchive(m) =>
                        (Archived(m) <=> (SinceLast(m) = -1 \/ SinceLast(m) >= 900))
                  /\ last[m].due => um[m].lastBackup = now
                  /\ ~last[m].due => um[m].lastBackup = last[m].pre.lastBackup /\ fs = last[m].preFs
                  /\ (last[m].due /\ SinceLast(m) # -1) => SinceLast(m) >= 60

\* The same with the gates as the code has them: a checkpoint when more than
\* 60 seconds have passed, an archive copy when more than 900
CheckpointGateStrict ==
    \A m \in Machines :
        last[m].op = 11 =>
            /\ um[m].backupFolder = NoFolder =>
                  ~last[m].due /\ (Unpassed(m) => fs = last[m].preFs)
            /\ um[m].backupFolder # NoFolder =>
                  /\ last[m].due <=> (SinceLast(m) = -1 \/ SinceLast(m) > 60)
                  /\ ReachedArchive(m) =>
                        (Archived(m) <=> (SinceLast(m) = -1 \/ SinceLast(m) > 900))
                  /\ last[m].due => um[m].lastBackup = now
                  /\ ~last[m].due => um[m].lastBackup = last[m].pre.lastBackup /\ fs = last[m].preFs
                  /\ (last[m].due /\ SinceLast(m) # -1) => SinceLast(m) > 60

\* C14: at every fetch of the dispatch loop the program spin reads is the
\* heap's array 0: the cached programHeap and um.Heap[0] are the same array
\* after any sequence of Array Amendment, Allocation, Abandonment and Load
\* Program.  Stated for guests that do nothing the machine leaves undefined.
C14_CacheCoherent ==
    \A m \in Machines :
        (pc[m] = "spin" /\ ~misbehaved[m]) =>
            /\ Zero \in DOMAIN um[m].Heap
            /\ programHeap[m].shared
            /\ programHeap[m].elems = um[m].Heap[Zero]

\* The same for a machine 1 started by LoadProgram, whose next identifier is
\* far from wrapping
CacheCoherentFromProgram ==
    (origin[1].how = "program" /\ pc[1] = "spin" /\ ~misbehaved[1]) =>
        /\ Zero \in DOMAIN um[1].Heap
        /\ programHeap[1].shared
        /\ programHeap[1].elems = um[1].Heap[Zero]

\* the arrays of h other than those of the identifiers in ids
Others(h, ids) == [k \in (DOMAIN h) \ ids |-> h[k]]

C16_FastPath ==
    \A m \in Machines :
        (Executed(m, 12) /\ last[m].pre.Gpr[RegB(last[m].inst)] = Zero) =>
            /\ um[m].ExFinger = last[m].pre.Gpr[RegC(last[m].inst)]
            /\ um[m].Heap = last[m].pre.Heap
            /\ um[m].Gpr = last[m].pre.Gpr
            /\ um[m].NextHeap = last[m].pre.NextHeap
            /\ programHeap[m].elems = last[m].preProgram
            /\ consoleOut[m] = last[m].preOut

\* C16 happens: a program that has amended its array 0 jumps within it, to a
\* platter other than the next one
C16_Witness ==
    \E m \in Machines :
        /\ Executed(m, 12)
        /\ last[m].pre.Gpr[RegB(last[m].inst)] = Zero
        /\ um[m].Heap[Zero] = [PatchProg EXCEPT ![6] = PatchProg[7]]
        /\ um[m].ExFinger = Plat(5)

\* C16 happens also as a jump backwards
C16_WitnessBack ==
    \E m \in Machines :
        /\ Executed(m, 12)
        /\ last[m].pre.Gpr[RegB(last[m].inst)] = Zero
        /\ Less(um[m].ExFinger, last[m].pre.ExFinger)

\* the instruction machine m executed last left the length of every array
\* that was live before it and is live after it as it was, but for array 0
\* when the instruction is a Load Program
LengthsKept(m) ==
    \A id \in (DOMAIN last[m].pre.Heap) \cap (DOMAIN um[m].Heap) :
        ~(last[m].op = 12 /\ id = Zero) =>
            Len(um[m].Heap[id]) = Len(last[m].pre.Heap[id])

\* C17: a live array keeps the length it was allocated with until it is
\* abandoned by opcode 9 or, for array 0, replaced by opcode 12: no other
\* instruction changes the length of a live array.
C17_LengthFixed ==
    \A m \in Machines : last[m].op # -1 => LengthsKept(m)

\* The same for a machine 1 started by LoadProgram, whose next identifier is
\* far from wrapping
LengthFixedFromProgram ==
    (origin[1].how = "program" /\ last[1].op # -1) => LengthsKept(1)

\* the four bytes of platter p, least significant first
ByteOf(p, i) ==
    CASE i = 0 -> p[2] % 256
      [] i = 1 -> p[2] \div 256
      [] i = 2 -> p[1] % 256
      [] i = 3 -> p[1] \div 256

\* bit i of limb x
BitOf(x, i) == (x \div (2 ^ i)) % 2

\* (a + b) mod 2^32: the limbs are added with the carry of the low one
WrapSum(a, b) ==
    LET lo == a[2] + b[2]
        hi == a[1] + b[1] + (IF lo >= Limb THEN 1 ELSE 0)
    IN  <<IF hi >= Limb THEN hi - Limb ELSE hi, IF lo >= Limb THEN lo - Limb ELSE lo>>

\* (a * b) mod 2^32: long multiplication of the bytes, columns 0 to 3
WrapProduct(a, b) ==
    LET col(k) == LET S[i \in -1..k] ==
                        IF i = -1 THEN 0 ELSE S[i - 1] + ByteOf(a, i) * ByteOf(b, k - i)
                  IN  S[k]
        s0 == col(0)
        s1 == col(1) + (s0 \div 256)
        s2 == col(2) + (s1 \div 256)
        s3 == col(3) + (s2 \div 256)
    IN  <<(s3 % 256) * 256 + (s2 % 256), (s1 % 256) * 256 + (s0 % 256)>>

\* p = NOT (a AND b), bit by bit
IsNotAnd(p, a, b) ==
    \A k \in 1..2 : \A i \in 0..15 :
        BitOf(p[k], i) = 1 - BitOf(a[k], i) * BitOf(b[k], i)

\* the machine u with register r holding v and the execution finger advanced
Stepped(u, r, v) == [u EXCEPT !.Gpr[r] = v, !.ExFinger = FingerInc(@)]

\* C18: every register always holds a value in 0..2^32-1; opcode 3 leaves
\* (R[B] + R[C]) mod 2^32 in R[A], opcode 4 (R[B] * R[C]) mod 2^32, opcode 6
\* the bitwise NOT of (R[B] AND R[C]), opcode 13 the 25-bit immediate in the
\* register bits 25..27 select, each changing no other register, no array
\* and not the next identifier.
C18_Arithmetic ==
    \A m \in Machines :
        /\ \A r \in 0..7 : IsPlatter(um[m].Gpr[r])
        /\ DOMAIN um[m].Gpr = 0..7
        /\ last[m].op \in {3, 4, 6, 13} =>
              LET pre  == last[m].pre
                  inst == last[m].inst
                  b    == pre.Gpr[(inst[2] \div 8) % 8]
                  c    == pre.Gpr[inst[2] % 8]
                  a    == (inst[2] \div 64) % 8
              IN  CASE last[m].op = 3  -> um[m] = Stepped(pre, a, WrapSum(b, c))
                    [] last[m].op = 4  -> um[m] = Stepped(pre, a, WrapProduct(b, c))
                    [] last[m].op = 6  -> /\ um[m] = Stepped(pre, a, um[m].Gpr[a])
                                          /\ IsNotAnd(um[m].Gpr[a], b, c)
                    [] last[m].op = 13 ->
                          um[m] = Stepped(pre, (inst[1] \div 512) % 8,
                                          <<inst[1] % 512, inst[2]>>)

\* C18 happens: 0xffffffff * 0xfffffffe has left 2 in a register, and before
\* it 0xffffffff + 0xffffffff had left 0xfffffffe and NOT (0 AND 0) 0xffffffff
C18_Witness ==
    \E m \in Machines :
        /\ last[m].op = 4
        /\ last[m].pre.Gpr[RegB(last[m].inst)] = AllOnes
        /\ last[m].pre.Gpr[RegC(last[m].inst)] = <<65535, 65534>>
        /\ um[m].Gpr[RegA(last[m].inst)] = <<0, 2>>
        /\ um[m].Gpr[1] = AllOnes
        /\ um[m].Gpr[2] = <<65535, 65534>>

\* C19: in a checkpoint that is to write an archive copy, failing to write it
\* does not keep the rename from happening: when encoding and the rename
\* succeed backup.dat holds the current snapshot whether or not the archive
\* copy was written; and an archive copy that was written is the snapshot that
\* becomes backup.dat.
C19_ArchiveSwallowed ==
    \A m \in Machines :
        Checkpointed(m) =>
            /\ last[m].fault = "archive" =>
                  /\ fs.backupDat = {SnapshotOf(m)}
                  /\ fs.archives = last[m].preFs.archives
                  /\ fs.tmp = last[m].preFs.tmp
            /\ Archived(m) =>
                  /\ fs.archives \ last[m].preFs.archives = {<<now, SnapshotOf(m)>>}
                  /\ last[m].fault = "none" => fs.backupDat = {SnapshotOf(m)}

\* C19 happens: a checkpoint whose archive copy could not be written has
\* replaced an earlier backup.dat by the current snapshot
C19_Witness ==
    \E m \in Machines :
        /\ Checkpointed(m)
        /\ last[m].fault = "archive"
        /\ last[m].preFs.backupDat # {}
        /\ last[m].preFs.backupDat # fs.backupDat
        /\ SinceLast(m) = 901

\* C19 happens also with the archive copy written, next to an earlier one
C19_WitnessArchived ==
    \E m \in Machines :
        /\ Checkpointed(m)
        /\ Archived(m)
        /\ Cardinality(fs.archives) = 2
        /\ last[m].fault = "none"

\* every live identifier of machine u is below its next identifier
BelowCounter(u) == \A id \in DOMAIN u.Heap : Less(id, u.NextHeap)

\* C20: the next identifier never decreases during a run; every live
\* identifier is below it, which LoadProgram establishes and every
\* instruction keeps; and Allocation hands out the next identifier, never one
\* that was handed out before.
C20_CounterMonotonic ==
    \A m \in Machines :
        /\ (pc[m] = "loaded" /\ origin[m].how = "program") => BelowCounter(um[m])
        /\ last[m].op # -1 =>
              /\ ~Less(um[m].NextHeap, last[m].pre.NextHeap)
              /\ BelowCounter(last[m].pre) => BelowCounter(um[m])
              /\ Executed(m, 8) =>
                    /\ um[m].Gpr[RegB(last[m].inst)] = last[m].pre.NextHeap
                    /\ Less(last[m].pre.NextHeap, um[m].NextHeap)

\* The same for a machine 1 started by LoadProgram, whose next identifier is
\* far from wrapping
CounterMonotonicFromProgram ==
    (origin[1].how = "program" /\ pc[1] \notin {"new", "exit"}) =>
        /\ BelowCounter(um[1])
        /\ last[1].op # -1 =>
              /\ ~Less(um[1].NextHeap, last[1].pre.NextHeap)
              /\ Executed(1, 8) =>
                    /\ um[1].Gpr[RegB(last[1].inst)] = last[1].pre.NextHeap
                    /\ Less(last[1].pre.NextHeap, um[1].NextHeap)

=============================================================================
